---- MODULE Spec2Model ----
(***************************************************************************)
(* Model of the Arihant Automobiles API (src/main.py, src/schemas.py):     *)
(* the product and order collections of the document store, the admin      *)
(* gate, the product handlers and the two-phase create_order handler.      *)
(*                                                                         *)
(* Every product handler performs one store operation and is one action.   *)
(* create_order performs one find_one per item, then one update_one per    *)
(* item, then one insert; each store operation is one step of the worker   *)
(* that serves the request, so that requests interleave between store      *)
(* operations (Spec).  SeqSpec is the same code with requests served       *)
(* strictly one at a time.                                                 *)
(*                                                                         *)
(* Scope: database.db is a connected store (the handlers' "db is None"     *)
(* answers are a configuration failure with no store to speak of).         *)
(***************************************************************************)
EXTENDS Integers, Sequences, FiniteSets, TLC

\* ---------------------------------------------------------------- bounds
MaxProducts == 2
MaxStock == 2
MaxQty == 2
MaxItems == 2
MaxSeqOrders == 2
MaxRaceItems == 1
MaxRaceOrders == 2
NumWorkers == 2

\* ------------------------------------------------------------ value sets
Oids == 1..MaxProducts
Workers == 1..NumWorkers
Titles == {"Wheel", "Seat"}
NoKey == "<unset>"
AdminKeys == {NoKey, "k1"}
NoHeader == "<absent>"
HeaderDefault == "<Header(default=None)>"
Headers == {NoHeader, "k1", "zz"}
NoDoc == [absent |-> TRUE]
InvalidId == 0
Malformed == <<"not-an-object-id">>
NoResp == [none |-> TRUE]
Unserved == [unserved |-> TRUE]
NoResult == [none |-> TRUE]
NoSnap == [none |-> TRUE]

\* The string form of a store identifier, and the parse of a client string:
\* ObjectId(s) raises InvalidId for anything that is not such a string.
Str(oid) == <<"oid", oid>>

ObjectId(s) == IF Len(s) = 2 /\ s[1] = "oid" THEN s[2] ELSE InvalidId

ProductIdStrs == {Str(k) : k \in Oids} \cup {Malformed}

\* schemas.Product as far as the handlers read it (stock: ge=0)
ProductPayloads == [title : Titles, stock : 0..MaxStock]

\* schemas.OrderItem as far as the handlers read it (quantity: ge=1)
OrderItems == [product_id : ProductIdStrs, quantity : 1..MaxQty]

\* schemas.Order.items: List[OrderItem], no length constraint
ItemLists == UNION {[1..n -> OrderItems] : n \in 0..MaxItems}

RaceItemLists == UNION {[1..n -> OrderItems] : n \in 0..MaxRaceItems}

RacePayloads == [title : {"Wheel"}, stock : 0..MaxStock]

VARIABLES
    admin_key,   \* os.getenv("ADMIN_API_KEY") of the process
    app,         \* "starting" | "serving" | "import_error"
    product,     \* db["product"]: Oid -> document or NoDoc
    next_oid,    \* the store's next fresh product identifier
    order,       \* db["order"]: sequence of inserted order documents
    resp,        \* response to the latest product / listing request
    pc,          \* per worker: position in create_order
    req,         \* per worker: order.items of the request being served
    idx,         \* per worker: loop cursor
    result,      \* per worker: response of create_order
    snap,        \* history: the store as it was when the worker's request began
    missed       \* history: some update_one of the request matched no document

vars == <<admin_key, app, product, next_oid, order, resp, pc, req, idx, result, snap, missed>>
workerVars == <<pc, req, idx, result, snap, missed>>

\* ------------------------------------------------------- store operations
FindOne(coll, oid) == IF oid \in DOMAIN coll THEN coll[oid] ELSE NoDoc

Exists(coll, oid) == FindOne(coll, oid) # NoDoc

\* Faulty variant: the decrement ignores the quantity and takes one unit.
UpdateOneIncByOne(coll, oid, delta) ==
    IF Exists(coll, oid) THEN [coll EXCEPT ![oid].stock = @ - 1] ELSE coll

\* Faulty variant: a conditional update that leaves the document alone when the
\* stock would go below zero.
UpdateOneIncFloor(coll, oid, delta) ==
    IF Exists(coll, oid) /\ coll[oid].stock + delta >= 0
    THEN [coll EXCEPT ![oid].stock = @ + delta]
    ELSE coll

\* update_one({"_id": oid}, {"$inc": {"stock": delta}}): one atomic
\* read-modify-write of the matched document; no match, no change.
UpdateOneInc(coll, oid, delta) ==
    IF Exists(coll, oid) THEN [coll EXCEPT ![oid].stock = @ + delta] ELSE coll

\* create_document(collection, payload): insert under a fresh identifier
InsertOne(coll, oid, doc) == [coll EXCEPT ![oid] = doc]

\* --------------------------------------------------------------- the gate
\* require_admin(x_admin_key): "True", or "raise" for HTTPException(401)
require_admin(x_admin_key) ==
    IF admin_key = NoKey THEN "True"
    ELSE IF x_admin_key # admin_key THEN "raise"
    ELSE "True"

Init ==
    /\ admin_key \in AdminKeys
    /\ app = "starting"
    /\ product = [k \in Oids |-> NoDoc]
    /\ next_oid = 1
    /\ order = <<>>
    /\ resp = NoResp
    /\ pc = [w \in Workers |-> "idle"]
    /\ req = [w \in Workers |-> <<>>]
    /\ idx = [w \in Workers |-> 0]
    /\ result = [w \in Workers |-> NoResult]
    /\ snap = [w \in Workers |-> NoSnap]
    /\ missed = [w \in Workers |-> FALSE]

\* Importing main: the defaults `_=require_admin()` of create_product,
\* update_product, delete_product and list_orders are evaluated once, here,
\* with x_admin_key bound to its own default, the Header(...) object.
ImportMain ==
    /\ app = "starting"
    /\ app' = IF require_admin(HeaderDefault) = "raise" THEN "import_error" ELSE "serving"
    /\ UNCHANGED <<admin_key, product, next_oid, order, resp, workerVars>>

\* --------------------------------------------------- product handlers
Response(status) == [status |-> status]

\* The handlers whose signature carries `_=require_admin()`.  The default
\* was computed by ImportMain; serving a request does not call require_admin
\* again and reads neither the request's x-admin-key header nor the
\* environment.
AdminOps == {"create_product", "update_product", "delete_product", "list_orders"}

create_product(payload, x_admin_key) ==
    /\ app = "serving"
    /\ next_oid <= MaxProducts
    /\ product' = InsertOne(product, next_oid, payload)
    /\ next_oid' = next_oid + 1
    /\ resp' = Response(200)
    /\ UNCHANGED <<admin_key, app, order, workerVars>>

\* The try block of get_product: what it returns or raises.
GetProductTry(coll, product_id) ==
    IF ObjectId(product_id) = InvalidId THEN [raise |-> "InvalidId"]
    ELSE IF ~Exists(coll, ObjectId(product_id)) THEN [raise |-> "HTTPException", status |-> 404]
    ELSE [return |-> FindOne(coll, ObjectId(product_id))]

\* `except Exception` encloses the whole try block, the raise of the 404
\* included: HTTPException is an Exception.
GetProductStatus(coll, product_id) ==
    IF "raise" \in DOMAIN GetProductTry(coll, product_id) THEN 400 ELSE 200

get_product(product_id) ==
    /\ app = "serving"
    /\ resp' = Response(GetProductStatus(product, product_id))
    /\ UNCHANGED <<admin_key, app, product, next_oid, order, workerVars>>

list_products ==
    /\ app = "serving"
    /\ resp' = Response(200)
    /\ UNCHANGED <<admin_key, app, product, next_oid, order, workerVars>>

\* ObjectId(product_id) is outside any try: InvalidId surfaces as a 500.
UpdateProductStatus(coll, product_id) ==
    IF ObjectId(product_id) = InvalidId THEN 500
    ELSE IF ~Exists(coll, ObjectId(product_id)) THEN 404
    ELSE 200

update_product(product_id, payload, x_admin_key) ==
    /\ app = "serving"
    /\ resp' = Response(UpdateProductStatus(product, product_id))
    /\ product' = IF UpdateProductStatus(product, product_id) = 200
                  THEN [product EXCEPT ![ObjectId(product_id)] = payload]
                  ELSE product
    /\ UNCHANGED <<admin_key, app, next_oid, order, workerVars>>

DeleteProductStatus(coll, product_id) ==
    IF ObjectId(product_id) = InvalidId THEN 500
    ELSE IF ~Exists(coll, ObjectId(product_id)) THEN 404
    ELSE 200

delete_product(product_id, x_admin_key) ==
    /\ app = "serving"
    /\ resp' = Response(DeleteProductStatus(product, product_id))
    /\ product' = IF DeleteProductStatus(product, product_id) = 200
                  THEN [product EXCEPT ![ObjectId(product_id)] = NoDoc]
                  ELSE product
    /\ UNCHANGED <<admin_key, app, next_oid, order, workerVars>>

list_orders(x_admin_key) ==
    /\ app = "serving"
    /\ resp' = Response(200)
    /\ UNCHANGED <<admin_key, app, product, next_oid, order, workerVars>>

\* main failed to import: the server never came up and no request is answered.
RequestUnserved ==
    /\ app = "import_error"
    /\ resp' = Unserved
    /\ UNCHANGED <<admin_key, app, product, next_oid, order, workerVars>>

\* ------------------------------------------------------- create_order
HTTPException(status, detail) == [status |-> status, detail |-> detail]

\* Faulty variant: the stock comparison is missing.
ValidateItemNoStockCheck(coll, item) ==
    IF ObjectId(item.product_id) = InvalidId
    THEN HTTPException(400, <<"Invalid product id in order">>)
    ELSE IF FindOne(coll, ObjectId(item.product_id)) = NoDoc
    THEN HTTPException(400, <<"Product not found: ", item.product_id>>)
    ELSE NoResult

\* Faulty variant: no `except Exception` clause, so InvalidId surfaces as a 500
\* (as it does in update_product and delete_product).
ValidateItemUncaught(coll, item) ==
    IF ObjectId(item.product_id) = InvalidId
    THEN HTTPException(500, <<"Internal Server Error">>)
    ELSE LET prod == FindOne(coll, ObjectId(item.product_id))
         IN IF prod = NoDoc
            THEN HTTPException(400, <<"Product not found: ", item.product_id>>)
            ELSE IF prod.stock < item.quantity
            THEN HTTPException(400, <<"Insufficient stock for ", prod.title>>)
            ELSE NoResult

\* Faulty variant: `except Exception` comes first and swallows the two
\* HTTPExceptions of the try block (as it does in get_product).
ValidateItemSwallowed(coll, item) ==
    IF ObjectId(item.product_id) = InvalidId
    THEN HTTPException(400, <<"Invalid product id in order">>)
    ELSE LET prod == FindOne(coll, ObjectId(item.product_id))
         IN IF prod = NoDoc \/ prod.stock < item.quantity
            THEN HTTPException(400, <<"Invalid product id in order">>)
            ELSE NoResult

\* One pass of the validation loop body (the try block and its two except
\* clauses): the HTTPException it raises, or NoResult when the item passes.
ValidateItem(coll, item) ==
    IF ObjectId(item.product_id) = InvalidId
    THEN HTTPException(400, <<"Invalid product id in order">>)
    ELSE LET prod == FindOne(coll, ObjectId(item.product_id))
         IN IF prod = NoDoc
            THEN HTTPException(400, <<"Product not found: ", item.product_id>>)
            ELSE IF prod.stock < item.quantity
            THEN HTTPException(400, <<"Insufficient stock for ", prod.title>>)
            ELSE NoResult

InFlight == {w \in Workers : pc[w] # "idle"}

\* A worker picks up POST /api/orders (the lowest free one: workers are
\* interchangeable).  No admin default in the signature.  `cap` bounds the
\* number of orders taken up; `history` is what snap records of the store.
StartOrder(w, items, cap, history) ==
    /\ app = "serving"
    /\ pc[w] = "idle"
    /\ \A v \in Workers : v < w => pc[v] # "idle"
    /\ Len(order) + Cardinality(InFlight) < cap
    /\ req' = [req EXCEPT ![w] = items]
    /\ idx' = [idx EXCEPT ![w] = 1]
    /\ pc' = [pc EXCEPT ![w] = IF Len(items) = 0 THEN "insert" ELSE "validate"]
    /\ snap' = [snap EXCEPT ![w] = history]
    /\ resp' = NoResp
    /\ UNCHANGED <<admin_key, app, product, next_oid, order, result, missed>>

\* One iteration of `for item in order.items` (validation): one find_one.
ValidateStep(w) ==
    /\ pc[w] = "validate"
    /\ LET exc == ValidateItem(product, req[w][idx[w]])
       IN IF exc # NoResult
          THEN /\ result' = [result EXCEPT ![w] = exc]
               /\ pc' = [pc EXCEPT ![w] = "done"]
               /\ UNCHANGED idx
          ELSE /\ pc' = [pc EXCEPT ![w] = IF idx[w] = Len(req[w]) THEN "deduct" ELSE "validate"]
               /\ idx' = [idx EXCEPT ![w] = IF idx[w] = Len(req[w]) THEN 1 ELSE idx[w] + 1]
               /\ UNCHANGED result
    /\ UNCHANGED <<admin_key, app, product, next_oid, order, resp, req, snap, missed>>

\* One iteration of `for item in order.items` (deduction): one update_one,
\* whose result (matched_count) is not looked at.
DeductStep(w) ==
    /\ pc[w] = "deduct"
    /\ product' = UpdateOneInc(product, ObjectId(req[w][idx[w]].product_id), -req[w][idx[w]].quantity)
    /\ missed' = [missed EXCEPT ![w] = @ \/ ~Exists(product, ObjectId(req[w][idx[w]].product_id))]
    /\ pc' = [pc EXCEPT ![w] = IF idx[w] = Len(req[w]) THEN "insert" ELSE "deduct"]
    /\ idx' = [idx EXCEPT ![w] = IF idx[w] = Len(req[w]) THEN 1 ELSE idx[w] + 1]
    /\ UNCHANGED <<admin_key, app, next_oid, order, resp, req, result, snap>>

\* create_document("order", order): insert, answer the new identifier
InsertStep(w) ==
    /\ pc[w] = "insert"
    /\ order' = Append(order, [items |-> req[w], status |-> "pending"])
    /\ result' = [result EXCEPT ![w] = [status |-> 200, detail |-> <<"order", Len(order) + 1>>]]
    /\ pc' = [pc EXCEPT ![w] = "done"]
    /\ UNCHANGED <<admin_key, app, product, next_oid, resp, req, idx, snap, missed>>

\* The response has been sent; the worker is free again.
Return(w) ==
    /\ pc[w] = "done"
    /\ pc' = [pc EXCEPT ![w] = "idle"]
    /\ req' = [req EXCEPT ![w] = <<>>]
    /\ idx' = [idx EXCEPT ![w] = 0]
    /\ result' = [result EXCEPT ![w] = NoResult]
    /\ snap' = [snap EXCEPT ![w] = NoSnap]
    /\ missed' = [missed EXCEPT ![w] = FALSE]
    /\ UNCHANGED <<admin_key, app, product, next_oid, order, resp>>

\* ------------------------------------------------------ specifications
\* A request to one of the four handlers behind the admin default, carrying
\* the header x_admin_key.
AdminRequest(op, x_admin_key, payloads) ==
    \/ op = "create_product" /\ \E payload \in payloads : create_product(payload, x_admin_key)
    \/ op = "update_product" /\ \E s \in ProductIdStrs, payload \in payloads :
                                    update_product(s, payload, x_admin_key)
    \/ op = "delete_product" /\ \E s \in ProductIdStrs : delete_product(s, x_admin_key)
    \/ op = "list_orders" /\ list_orders(x_admin_key)
    \/ RequestUnserved

ProductRequest(payloads) ==
    \/ \E op \in AdminOps, h \in Headers : AdminRequest(op, h, payloads)
    \/ \E s \in ProductIdStrs : get_product(s)
    \/ list_products

Step ==
    \/ \E w \in Workers : ValidateStep(w)
    \/ \E w \in Workers : DeductStep(w)
    \/ \E w \in Workers : InsertStep(w)
    \/ \E w \in Workers : Return(w)

\* Requests interleave between store operations.
Next ==
    \/ ImportMain
    \/ ProductRequest(RacePayloads)
    \/ \E w \in Workers, items \in RaceItemLists : StartOrder(w, items, MaxRaceOrders, NoSnap)
    \/ Step

Spec == Init /\ [][Next]_vars

\* Requests served strictly one at a time: a request is taken up only when
\* no create_order is in progress.
AllIdle == InFlight = {}

SeqNext ==
    \/ ImportMain
    \/ AllIdle /\ ProductRequest(ProductPayloads)
    \/ AllIdle /\ \E w \in Workers, items \in ItemLists :
                     StartOrder(w, items, MaxSeqOrders, [product |-> product, norders |-> Len(order)])
    \/ Step

SeqSpec == Init /\ [][SeqNext]_vars

\* ------------------------------------------------------------- claims
\* What a finished or running create_order is compared against: the store
\* as it was when the request began (SeqSpec), and the items submitted.
Before(w) == snap[w].product

ItemOid(w, i) == ObjectId(req[w][i].product_id)

Resolves(w, i) == ItemOid(w, i) # InvalidId /\ Exists(Before(w), ItemOid(w, i))

Short(w, i) == Resolves(w, i) /\ req[w][i].quantity > Before(w)[ItemOid(w, i)].stock

Fails(w, i) == ~Resolves(w, i) \/ Short(w, i)

Untouched(w) == product = Before(w) /\ Len(order) = snap[w].norders

RECURSIVE Ordered(_, _)
\* total quantity the item list orders of product oid
Ordered(items, oid) ==
    IF items = <<>> THEN 0
    ELSE (IF ObjectId(Head(items).product_id) = oid THEN Head(items).quantity ELSE 0)
         + Ordered(Tail(items), oid)

\* C1: a create_order call one of whose items asks for more than the current
\* stock of its product fails as a whole (400): at no point of the call has
\* any stock changed, earlier passing items included, and no order is inserted.
C1_InsufficientStockFailsWhole ==
    \A w \in Workers :
        (pc[w] # "idle" /\ \E i \in 1..Len(req[w]) : Short(w, i)) =>
            /\ Untouched(w)
            /\ pc[w] \in {"validate", "done"}
            /\ pc[w] = "done" => result[w].status = 400

\* C1 witness: the call has failed on its second item for lack of stock after
\* its first item, on another product, passed.
C1_Witness ==
    \E w \in Workers :
        /\ pc[w] = "done" /\ Len(req[w]) = 2
        /\ ~Fails(w, 1) /\ Short(w, 2) /\ ItemOid(w, 1) # ItemOid(w, 2)
        /\ result[w].status = 400

\* C2: served without interleaving, a create_order call all of whose items
\* reference an existing product with quantity <= its current stock succeeds,
\* inserts exactly one order (the one submitted), lowers the stock of each
\* product by the total quantity ordered of it and leaves every other
\* product (and every other field) as it was.
C2_SufficientStockSucceeds ==
    \A w \in Workers :
        (pc[w] = "done" /\ \A i \in 1..Len(req[w]) : ~Fails(w, i)) =>
            /\ result[w].status = 200
            /\ Len(order) = snap[w].norders + 1
            /\ order[Len(order)].items = req[w]
            /\ \A k \in Oids :
                 product[k] = IF Exists(Before(w), k)
                              THEN [Before(w)[k] EXCEPT !.stock = @ - Ordered(req[w], k)]
                              ELSE NoDoc

\* C2 witness: an order of two units of one product has succeeded while
\* another product, not referenced, is in the store.
C2_Witness ==
    \E w \in Workers, k \in Oids :
        /\ pc[w] = "done" /\ result[w].status = 200
        /\ Len(req[w]) = 1 /\ req[w][1].quantity = 2
        /\ Exists(product, k) /\ ItemOid(w, 1) # k

\* C3: a create_order call whose items include a product id that is
\* malformed or matches no product fails with status 400; at no point of the
\* call is an order inserted or any stock changed.
C3_UnresolvedFailsClientError ==
    \A w \in Workers :
        (pc[w] # "idle" /\ \E i \in 1..Len(req[w]) : ~Resolves(w, i)) =>
            /\ Untouched(w)
            /\ pc[w] \in {"validate", "done"}
            /\ pc[w] = "done" => result[w].status = 400

\* C3 witness: the call has failed on a malformed second id after its first
\* item passed.
C3_Witness ==
    \E w \in Workers :
        /\ pc[w] = "done" /\ Len(req[w]) = 2
        /\ ~Fails(w, 1) /\ ItemOid(w, 2) = InvalidId
        /\ result[w].status = 400

\* C4: each deduction is one atomic, unconditional decrement: whenever a
\* deduction step matches a product, that product's stock drops by exactly
\* the item's quantity whatever the stock is by then (nothing re-checks it
\* after validation), and no other product changes.  Two requests that both
\* validate before either deducts are therefore both persisted, with the
\* stock below zero (C4_Witness).
C4_DeductionUnconditional ==
    [][\A w \in Workers :
          DeductStep(w) =>
              \A k \in Oids :
                  product'[k] = IF k = ItemOid(w, idx[w]) /\ Exists(product, k)
                                THEN [product[k] EXCEPT !.stock = @ - req[w][idx[w]].quantity]
                                ELSE product[k]]_vars

\* C4 witness: two orders of one unit each of the same product are both
\* persisted and that product's stock is -1.
C4_Witness ==
    /\ \A w \in 1..2 :
          /\ pc[w] = "done" /\ result[w].status = 200
          /\ req[w] = <<[product_id |-> Str(1), quantity |-> 1]>>
    /\ Len(order) = 2
    /\ Exists(product, 1) /\ product[1].stock = -1

\* C5 (as claimed): get_product answers 400 for a malformed id, 404 for a
\* well-formed id that matches no product, and the product (200) otherwise.
C5_GetProductDistinguishes ==
    [][\A s \in ProductIdStrs :
          get_product(s) =>
              resp' = Response(IF ObjectId(s) = InvalidId THEN 400
                               ELSE IF Exists(product, ObjectId(s)) THEN 200
                               ELSE 404)]_vars

\* C6 (as claimed): with a secret configured, a request to product create,
\* update, delete or order listing whose header is absent or differs from
\* the secret is answered 401 and changes neither collection.
C6_GateRejectsPerRequest ==
    [][\A op \in AdminOps, h \in Headers :
          (admin_key # NoKey /\ h # admin_key /\ AdminRequest(op, h, ProductPayloads)) =>
              /\ resp' = Response(401)
              /\ product' = product
              /\ order' = order]_vars

\* The reason the claim gives for an item that fails.
ClaimedReason(w, i) ==
    IF ItemOid(w, i) = InvalidId THEN <<"Invalid product id in order">>
    ELSE IF ~Exists(Before(w), ItemOid(w, i)) THEN <<"Product not found: ", req[w][i].product_id>>
    ELSE <<"Insufficient stock for ", Before(w)[ItemOid(w, i)].title>>

C8_OrdersNonEmpty ==
    \A k \in 1..Len(order) : Len(order[k].items) >= 1

\* C9 (as claimed): with requests served one at a time, the stock of every
\* product is >= 0 in every reachable state.
C9_StockNonNegative ==
    \A k \in Oids : Exists(product, k) => product[k].stock >= 0

\* C10 (as claimed): an order is persisted only if every one of its
\* deduction steps matched a product.
C10_PersistedOrdersDeducted ==
    \A w \in Workers :
        (pc[w] = "done" /\ result[w].status = 200) => ~missed[w]

====
